---- MODULE Spec2Model ----
(***************************************************************************)
(* Model of streamlit_app.py (Steam Game Tracker): the time-windowed data  *)
(* cache (get_croatian_time .. load_steam_data), the curation store        *)
(* (favorites, custom lists) and the pagination counter, all kept in       *)
(* Streamlit's st.session_state, and the sidebar filters of main().        *)
(*                                                                         *)
(* A text the code searches, splits or strips (a list name, a tag field,   *)
(* a keyword string) is a sequence of one-character strings.               *)
(*                                                                         *)
(* Time is counted in whole hours.  `clock` is the UTC wall clock, hour 0  *)
(* being 00:00 UTC of day 0.  A local datetime is the number of hours      *)
(* since local 00:00 of day 0, so its date is (t \div 24) and its hour is  *)
(* (t % 24).  Every comparison the code makes on datetimes is against an   *)
(* on-the-hour instant (20:00) or between two clock readings, so whole     *)
(* hours keep their outcome.                                               *)
(***************************************************************************)
EXTENDS Integers, Sequences, FiniteSets, TLC

VARIABLES
    clock,          \* datetime.now(timezone.utc), in hours
    calendar,       \* march_last_sunday / october_last_sunday of the year
    session_state,  \* st.session_state
    df,             \* the table main() got from load_steam_data()
    cycle,          \* what the last handler did (observation only)
    last_put,       \* the last set_cached_data call (observation only)
    hash_seed,      \* the key of str hashing the interpreter process drew
    widgets         \* the values of the sidebar's filter widgets

vars == <<clock, calendar, session_state, df, cycle, last_put, hash_seed,
          widgets>>

----------------------------------------------------------------------------
(* Bounds of the model *)

StartClock == 41        \* first clock reading: day 1, 17:00 UTC
Horizon == 56           \* hours of wall clock explored after StartClock

CatalogRows == 45       \* rows of the long catalog

(* The UTC hours of the day at which the page is visited: around local     *)
(* 20:00 under either offset (17, 18, 19) and around 00:00 UTC, when the   *)
(* offset changes (23, 0).                                                 *)
VisitHours == {0, 17, 18, 19, 23}

(* The visiting hours of a user who opens the page once a day. *)
DailyHours == {17, 18}

(* The hash keys an interpreter process can draw at its start   *)
(* (PYTHONHASHSEED unset: a random key for each process).       *)
Seeds == {1, 2}

(* The list names the user types. *)
NameInputs == { <<" ">>, <<"a">>, <<"b">> }

(* List names that read as the options the "Show List" box starts with. *)
ListNames ==
    { <<"a">>, <<"F", "a", "v", "o", "r", "i", "t", "e", "s">> }

(* Program constants *)

UpdateHour == 20        \* the daily cut-over hour, local time
HoursPerDay == 24       \* timedelta(days=1)
CET == 1                \* timedelta(hours=1)
CEST == 2               \* timedelta(hours=2)
PageSize == 20          \* games_shown initial value and Load More step

None == [none |-> TRUE]                 \* Python None
NaN == [kind |-> "nan"]                 \* pandas NaN
DataFrame(records) == [rows |-> records]    \* pd.DataFrame(data)
EmptyFrame == DataFrame(<<>>)           \* pd.DataFrame()

----------------------------------------------------------------------------
(* Catalog rows.  get_all_records() gives each cell as a number (a cell    *)
(* that reads as one) or as a text, kept as its sequence of characters.    *)

Num(n) == [kind |-> "num", val |-> n]
Text(s) == [kind |-> "text", val |-> s]

Dota == <<"D", "o", "t", "a">>
Quake == <<"Q", "u", "a", "k", "e">>
NotAvailable == <<"n", "/", "a">>

(* The sheets a fetch can return: non-empty lists of raw records. *)
RawSheets ==
    { << [AppID |-> Num(570), Name |-> Text(Dota)],
         [AppID |-> Text(NotAvailable), Name |-> Text(Quake)] >>,
      << [AppID |-> Num(570), Name |-> Text(Dota)],
         [AppID |-> Num(730), Name |-> Text(Dota)] >> }

AnySheet(sheets) == CHOOSE sheet \in sheets : TRUE

(* The sheets of the whole-page specification. *)
PageSheets ==
    { << [AppID |-> Num(570), Name |-> Text(Dota)],
         [AppID |-> Text(NotAvailable), Name |-> Text(Quake)] >> }

(* The sheets the filters are applied to: the columns main() filters and  *)
(* searches on, with tag texts "RPG, Horror" and cells of every kind in    *)
(* the boolean columns.                                                    *)
Doom == <<"D", "o", "o", "m">>
Myst == <<"M", "y", "s", "t">>
RPG == <<"R", "P", "G">>
Horror == <<"H", "o", "r", "r", "o", "r">>
Nudity == <<"N", "u", "d", "i", "t", "y">>
FPS == <<"F", "P", "S">>
CommaSpace == <<",", " ">>

DotaRow ==
    [AppID |-> Num(570), Name |-> Text(Dota), Genres |-> Text(RPG),
     CommunityTags |-> Text(RPG \o CommaSpace \o Horror),
     Demo |-> Text(<<"T", "R", "U", "E">>), IsDemo |-> Text(<<>>),
     ReleaseStatus |-> Text(<<"r", "e", "l", "e", "a", "s", "e", "d">>)]

QuakeRow ==
    [AppID |-> Text(NotAvailable), Name |-> Text(Quake), Genres |-> Text(FPS),
     CommunityTags |-> Text(RPG),
     Demo |-> Num(0), IsDemo |-> Num(1),
     ReleaseStatus |-> Text(<<"c", "o", "m", "i", "n", "g", "_", "s", "o", "o", "n">>)]

DoomRow ==
    [AppID |-> Num(730), Name |-> Text(Doom), Genres |-> Text(FPS),
     CommunityTags |-> Text(Horror \o CommaSpace \o Nudity),
     Demo |-> Text(<<"n", "o">>), IsDemo |-> Text(<<"y", "e", "s">>),
     ReleaseStatus |-> Text(<<"R", "e", "l", "e", "a", "s", "e", "d">>)]

MystRow ==
    [AppID |-> Num(1), Name |-> Text(Myst), Genres |-> Text(<<>>),
     CommunityTags |-> Text(<<>>),
     Demo |-> Text(<<>>), IsDemo |-> Text(<<>>),
     ReleaseStatus |-> Text(<<"d", "i", "s", "t", "a", "n", "t", "_", "f", "u", "t", "u", "r", "e">>)]

FilterSheets ==
    { <<DotaRow, QuakeRow, DoomRow>>,
      <<DoomRow, DotaRow>>,
      <<QuakeRow, MystRow>> }

(* A sheet with a game whose name reads as a number (the cell "730") and   *)
(* whose AppID cell is blank, next to the game of AppID 730.               *)
ListSheets ==
    { << [AppID |-> Num(570), Name |-> Text(Dota)],
         [AppID |-> Text(<<>>), Name |-> Num(730)],
         [AppID |-> Num(730), Name |-> Text(Quake)] >> }

(* A sheet longer than two pages (it lists its two games over and over),   *)
(* and a sheet shorter than one page.                                      *)
LongSheets ==
    { [i \in 1..CatalogRows |->
          IF i % 2 = 1 THEN [AppID |-> Num(570), Name |-> Text(Dota)]
                       ELSE [AppID |-> Text(NotAvailable), Name |-> Text(Quake)]],
      << [AppID |-> Num(570), Name |-> Text(Dota)],
         [AppID |-> Text(NotAvailable), Name |-> Text(Quake)] >> }

(* A cell of the DateAdded column is a text; Date(n) is a text that reads  *)
(* as the date of day n.                                                   *)
Date(n) == [kind |-> "date", val |-> n]

(* The sheets the sort stage is applied to: games of the same name, of    *)
(* the same date, and with no date.                                        *)
SortSheets ==
    LET a1 == [AppID |-> Num(570), Name |-> Text(<<"A">>),
               DateAdded |-> Date(2),
               ReleaseStatus |-> Text(<<"c", "o", "m", "i", "n", "g", "_", "s", "o", "o", "n">>)]
        a2 == [AppID |-> Num(730), Name |-> Text(<<"A">>),
               DateAdded |-> Text(<<>>),
               ReleaseStatus |-> Text(<<"r", "e", "l", "e", "a", "s", "e", "d">>)]
        b1 == [AppID |-> Num(1), Name |-> Text(<<"B">>),
               DateAdded |-> Date(2),
               ReleaseStatus |-> Text(<<"r", "e", "l", "e", "a", "s", "e", "d">>)]
        b2 == [AppID |-> Text(NotAvailable), Name |-> Text(<<"B">>),
               DateAdded |-> Date(1),
               ReleaseStatus |-> Text(<<"R", "e", "l", "e", "a", "s", "e", "d">>)]
    IN { <<b1, a1, a2>>, <<a2, b2, a1, b1>>, <<a1, b1>> }

(* pd.to_numeric(df['AppID'], errors='coerce') on one cell *)
to_numeric(cell) == IF cell.kind = "num" THEN cell ELSE NaN

notna(cell) == cell # NaN

(* str.lower() on one character *)
lower_char(c) ==
    CASE c = "A" -> "a" [] c = "B" -> "b" [] c = "C" -> "c" [] c = "D" -> "d"
      [] c = "E" -> "e" [] c = "F" -> "f" [] c = "G" -> "g" [] c = "H" -> "h"
      [] c = "I" -> "i" [] c = "J" -> "j" [] c = "K" -> "k" [] c = "L" -> "l"
      [] c = "M" -> "m" [] c = "N" -> "n" [] c = "O" -> "o" [] c = "P" -> "p"
      [] c = "Q" -> "q" [] c = "R" -> "r" [] c = "S" -> "s" [] c = "T" -> "t"
      [] c = "U" -> "u" [] c = "V" -> "v" [] c = "W" -> "w" [] c = "X" -> "x"
      [] c = "Y" -> "y" [] c = "Z" -> "z"
      [] OTHER -> c

lower(text) == [i \in 1..Len(text) |-> lower_char(text[i])]

(* str(n) of the numbers the catalogs use *)
str_of_int(n) ==
    CASE n = 0 -> <<"0">>
      [] n = 1 -> <<"1">>
      [] n = 570 -> <<"5", "7", "0">>
      [] n = 730 -> <<"7", "3", "0">>
      [] OTHER -> <<"#">>

(* Series.astype(str) on one cell *)
astype_str(cell) ==
    CASE cell.kind = "text" -> cell.val
      [] cell.kind = "num" -> str_of_int(cell.val)
      [] cell.kind = "bool" -> IF cell.val THEN <<"T", "r", "u", "e">>
                                           ELSE <<"F", "a", "l", "s", "e">>
      [] OTHER -> <<"n", "a", "n">>

Bool(b) == [kind |-> "bool", val |-> b]

BooleanFields == {"Demo", "IsDemo", "IsComingSoon", "IsPlaceholderDate"}

(* df[field].astype(str).str.lower().isin(['true', '1', 'yes']) on one cell *)
to_bool(cell) ==
    Bool(lower(astype_str(cell))
            \in { <<"t", "r", "u", "e">>, <<"1">>, <<"y", "e", "s">> })

(* pd.to_datetime(df['DateAdded'], errors='coerce') on one cell *)
to_datetime(cell) == IF cell.kind = "date" THEN cell ELSE NaN

(* load_steam_data, "Convert data types": the table built from the sheet. *)
convert_types(sheet) ==
    DataFrame([i \in 1..Len(sheet) |->
        [field \in DOMAIN sheet[i] |->
            IF field = "AppID" THEN to_numeric(sheet[i][field])
            ELSE IF field = "DateAdded" THEN to_datetime(sheet[i][field])
            ELSE IF field \in BooleanFields THEN to_bool(sheet[i][field])
            ELSE sheet[i][field]]])

(* Python's hash() of a str, a keyed hash: a table for each key the        *)
(* process can have drawn.                                                 *)
str_hash(seed, text) ==
    LET code == CASE text = Dota -> 1
                  [] text = Quake -> 2
                  [] OTHER -> 9
    IN 9000 + 100 * (seed - 1) + code

(* Python's hash(): of an int the int itself, of a str the keyed hash *)
hash(name) ==
    IF name.kind = "num" THEN name.val
    ELSE str_hash(hash_seed, name.val)

get_game_id(game) ==
    IF notna(game.AppID) THEN game.AppID.val ELSE hash(game.Name)

----------------------------------------------------------------------------
(* Curation store: favorites and custom lists in st.session_state.  An     *)
(* entry is {'id', 'name', 'dateAdded'}; dateAdded is never read by the    *)
(* code that decides membership and is left out.  A list name is the text  *)
(* typed by the user, kept as its sequence of characters.                  *)

RECURSIVE lstrip(_)
lstrip(text) ==
    IF text = <<>> THEN text
    ELSE IF Head(text) = " " THEN lstrip(Tail(text)) ELSE text

RECURSIVE rstrip(_)
rstrip(text) ==
    IF text = <<>> THEN text
    ELSE IF text[Len(text)] = " "
         THEN rstrip(SubSeq(text, 1, Len(text) - 1)) ELSE text

(* str.strip() *)
strip(text) == rstrip(lstrip(text))

is_game_favorited(ss, game_id) ==
    \E i \in 1..Len(ss.favorites) : ss.favorites[i].id = game_id

(* is_game_in_list that finds nothing *)
is_game_in_list_never(ss, game_id, list_name) == FALSE

is_game_in_list(ss, game_id, list_name) ==
    IF list_name \notin DOMAIN ss.custom_lists THEN FALSE
    ELSE \E i \in 1..Len(ss.custom_lists[list_name]) :
            ss.custom_lists[list_name][i].id = game_id

(* create_favorite_button that adds an entry whatever is_favorited says *)
create_favorite_button_append(ss, game) ==
    LET game_id == get_game_id(game)
    IN [ss EXCEPT !.favorites =
            Append(@, [id |-> game_id, name |-> game.Name])]

(* create_favorite_button, the branch taken when the button is clicked *)
create_favorite_button(ss, game) ==
    LET game_id == get_game_id(game)
        is_favorited == is_game_favorited(ss, game_id)
    IN IF is_favorited
       THEN [ss EXCEPT !.favorites =
                SelectSeq(@, LAMBDA fav : fav.id # game_id)]
       ELSE [ss EXCEPT !.favorites =
                Append(@, [id |-> game_id, name |-> game.Name])]

(* create_list_management_buttons, the "Add" button clicked *)
add_to_list(ss, game, selected_list) ==
    LET game_id == get_game_id(game)
        ss1 == IF selected_list \notin DOMAIN ss.custom_lists
               THEN [ss EXCEPT !.custom_lists = (selected_list :> <<>>) @@ @]
               ELSE ss
    IN IF ~is_game_in_list(ss1, game_id, selected_list)
       THEN [ss1 EXCEPT !.custom_lists[selected_list] =
                Append(@, [id |-> game_id, name |-> game.Name])]
       ELSE ss1

(* the "Remove" button that takes the game out of every list *)
remove_from_list_everywhere(ss, game, selected_list) ==
    LET game_id == get_game_id(game)
    IN [ss EXCEPT !.custom_lists =
            [name \in DOMAIN @ |-> SelectSeq(@[name], LAMBDA g : g.id # game_id)]]

(* create_list_management_buttons, the "Remove" button clicked *)
remove_from_list(ss, game, selected_list) ==
    LET game_id == get_game_id(game)
    IN [ss EXCEPT !.custom_lists[selected_list] =
            SelectSeq(@, LAMBDA g : g.id # game_id)]

(* "Create List" that assigns the empty list without looking for the name *)
create_list_overwrite(ss, new_list_name) ==
    IF strip(new_list_name) = <<>> THEN ss
    ELSE [ss EXCEPT !.custom_lists = (new_list_name :> <<>>) @@ @]

(* main, "Create List" clicked with new_list_name typed *)
create_list(ss, new_list_name) ==
    IF strip(new_list_name) = <<>> THEN ss
    ELSE IF new_list_name \notin DOMAIN ss.custom_lists
         THEN [ss EXCEPT !.custom_lists = (new_list_name :> <<>>) @@ @]
         ELSE ss

(* main, "Create List": what st.success / st.warning shows, "" if nothing *)
create_list_message(ss, new_list_name) ==
    IF strip(new_list_name) = <<>> THEN ""
    ELSE IF new_list_name \notin DOMAIN ss.custom_lists
         THEN "Created list"
         ELSE "List already exists!"

(* main, the delete button of list_name clicked *)
delete_list(ss, list_name) ==
    [ss EXCEPT !.custom_lists =
        [name \in DOMAIN @ \ {list_name} |-> @[name]]]

----------------------------------------------------------------------------
(* Text: str operations on sequences of characters *)

(* `pat in text`, and Series.str.contains(pat, regex=False) on one value *)
contains(text, pat) ==
    \E i \in 0..(Len(text) - Len(pat)) : SubSeq(text, i + 1, i + Len(pat)) = pat

(* text.split(',') *)
RECURSIVE split(_)
split(text) ==
    IF \A i \in 1..Len(text) : text[i] # ","
    THEN <<text>>
    ELSE LET i == CHOOSE j \in 1..Len(text) :
                    text[j] = "," /\ \A k \in 1..(j - 1) : text[k] # ","
         IN <<SubSeq(text, 1, i - 1)>> \o split(SubSeq(text, i + 1, Len(text)))

(* ' '.join(parts) *)
RECURSIVE join(_)
join(parts) ==
    IF parts = <<>> THEN <<>>
    ELSE IF Len(parts) = 1 THEN parts[1]
    ELSE parts[1] \o <<" ">> \o join(Tail(parts))

(* pd.notna(row.get(field)): the column exists and the cell is not NaN *)
has_value(row, field) == field \in DOMAIN row /\ notna(row[field])

(* create_description_search_text *)
create_description_search_text(row) ==
    LET filled(field) == has_value(row, field)
                           /\ strip(astype_str(row[field])) # <<>>
        name == IF has_value(row, "Name")
                THEN <<astype_str(row.Name)>> ELSE <<>>
        description ==
            IF filled("DetailedDescription")
            THEN <<astype_str(row.DetailedDescription)>>
            ELSE IF filled("AboutTheGame") THEN <<astype_str(row.AboutTheGame)>>
            ELSE IF filled("ShortDescription")
            THEN <<astype_str(row.ShortDescription)>>
            ELSE <<>>
        genres == IF filled("Genres") THEN <<astype_str(row.Genres)>> ELSE <<>>
        categories == IF filled("Categories")
                      THEN <<astype_str(row.Categories)>> ELSE <<>>
    IN lower(join(name \o description \o genres \o categories))

(* [k.strip().lower() for k in keywords.split(',') if k.strip()] *)
keyword_list_of(keywords) ==
    LET pieces == split(keywords)
        kept == SelectSeq(pieces, LAMBDA k : strip(k) # <<>>)
    IN [i \in 1..Len(kept) |-> lower(strip(kept[i]))]

(* filter_games_by_keywords that builds the mask from an empty keyword list *)
filter_games_by_keywords_no_guard(frame, keywords) ==
    IF keywords = <<>> \/ Len(frame.rows) = 0 THEN frame
    ELSE LET keyword_list == keyword_list_of(keywords)
             mask(row) ==
                \E n \in 1..Len(keyword_list) :
                    contains(create_description_search_text(row),
                             lower(keyword_list[n]))
         IN DataFrame(SelectSeq(frame.rows, mask))

(* filter_games_by_keywords; the mask ORs str.contains(keyword, case=False) *)
filter_games_by_keywords(frame, keywords) ==
    IF keywords = <<>> \/ Len(frame.rows) = 0 THEN frame
    ELSE LET keyword_list == keyword_list_of(keywords)
             mask(row) ==
                \E n \in 1..Len(keyword_list) :
                    contains(create_description_search_text(row),
                             lower(keyword_list[n]))
         IN IF keyword_list = <<>> THEN frame
            ELSE DataFrame(SelectSeq(frame.rows, mask))

(* Filters of main() *)

(* the selectbox options "All" and "Favorites", as the list names are kept *)
All == <<"A", "l", "l">>
Favorites == <<"F", "a", "v", "o", "r", "i", "t", "e", "s">>

released == <<"r", "e", "l", "e", "a", "s", "e", "d">>
coming_soon == <<"c", "o", "m", "i", "n", "g", "_", "s", "o", "o", "n">>
distant_future == <<"d", "i", "s", "t", "a", "n", "t", "_", "f", "u", "t", "u", "r", "e">>

(* filtered_df.columns; every row of a table has the columns of the sheet *)
columns(frame) == IF frame.rows = <<>> THEN {} ELSE DOMAIN frame.rows[1]

(* filtered_df['CommunityTags'].astype(str).str.contains(tag, case=False,  *)
(* na=False, regex=False) on one row                                       *)
tag_present(row, tag) ==
    contains(lower(astype_str(row.CommunityTags)), lower(tag))

(* the INCLUDE filter with OR logic *)
include_tags_any(filtered_df, selected_tags) ==
    IF selected_tags # {} /\ "CommunityTags" \in columns(filtered_df)
    THEN LET include_mask(row) == \E tag \in selected_tags : tag_present(row, tag)
         IN DataFrame(SelectSeq(filtered_df.rows, include_mask))
    ELSE filtered_df

(* main, "Community tags filter - INCLUDE" *)
include_tags(filtered_df, selected_tags) ==
    IF selected_tags # {} /\ "CommunityTags" \in columns(filtered_df)
    THEN LET include_mask(row) == \A tag \in selected_tags : tag_present(row, tag)
         IN DataFrame(SelectSeq(filtered_df.rows, include_mask))
    ELSE filtered_df

(* the EXCLUDE filter that drops only the first row holding an excluded tag *)
exclude_tags_first(filtered_df, excluded_tags) ==
    IF excluded_tags # {} /\ "CommunityTags" \in columns(filtered_df)
    THEN LET exclude_mask(row) == \E tag \in excluded_tags : tag_present(row, tag)
             rows == filtered_df.rows
             hit == {i \in 1..Len(rows) : exclude_mask(rows[i])}
             first == {i \in hit : \A j \in hit : i <= j}
         IN DataFrame(SelectSeq(rows, LAMBDA row :
                \A i \in first : rows[i] # row))
    ELSE filtered_df

(* main, "Community tags filter - EXCLUDE" *)
exclude_tags(filtered_df, excluded_tags) ==
    IF excluded_tags # {} /\ "CommunityTags" \in columns(filtered_df)
    THEN LET exclude_mask(row) == \E tag \in excluded_tags : tag_present(row, tag)
         IN DataFrame(SelectSeq(filtered_df.rows, LAMBDA row : ~exclude_mask(row)))
    ELSE filtered_df

(* main, "Demo filter"; the catalogs have the Demo and IsDemo columns *)
demo_filtered(filtered_df, demo_filter) ==
    IF demo_filter = "Has Demo"
    THEN LET demo_mask(row) == row.Demo = Bool(TRUE) \/ row.IsDemo = Bool(TRUE)
         IN DataFrame(SelectSeq(filtered_df.rows, demo_mask))
    ELSE filtered_df

(* status_map.get(release_status_filter) *)
status_map(release_status_filter) ==
    CASE release_status_filter = "Released" -> released
      [] release_status_filter = "Coming Soon" -> coming_soon
      [] release_status_filter = "Distant Future" -> distant_future
      [] OTHER -> <<>>

(* main, "Release status filter" *)
release_status_filtered(filtered_df, release_status_filter) ==
    IF release_status_filter # "All" /\ "ReleaseStatus" \in columns(filtered_df)
    THEN LET target_status == status_map(release_status_filter)
             status_mask(row) ==
                lower(astype_str(row.ReleaseStatus)) = target_status
         IN IF target_status # <<>>
            THEN DataFrame(SelectSeq(filtered_df.rows, status_mask))
            ELSE filtered_df
    ELSE filtered_df

adult_tags ==
    { <<"s", "e", "x", "u", "a", "l", " ", "c", "o", "n", "t", "e", "n", "t">>,
      <<"n", "u", "d", "i", "t", "y">>,
      <<"m", "a", "t", "u", "r", "e">>,
      <<"n", "s", "f", "w">>,
      <<"a", "d", "u", "l", "t", " ", "c", "o", "n", "t", "e", "n", "t">>,
      <<"h", "e", "n", "t", "a", "i">>,
      <<"s", "e", "x", "u", "a", "l">>,
      <<"e", "r", "o", "t", "i", "c">>,
      <<"a", "d", "u", "l", "t">>,
      <<"s", "e", "x">>,
      <<"n", "u", "d", "e">> }

is_adult_content(game) ==
    LET is_str == "CommunityTags" \in DOMAIN game
                    /\ game.CommunityTags.kind = "text"
    IN IF ~is_str THEN FALSE
       ELSE IF game.CommunityTags.val = <<>> THEN FALSE
       ELSE LET tags_lower == lower(game.CommunityTags.val)
            IN \E adult_tag \in adult_tags : contains(tags_lower, adult_tag)

(* the adult content filter that never hides a row *)
adult_filtered_never(filtered_df, show_adult_content) == filtered_df

(* main, "Adult content filter" *)
adult_filtered(filtered_df, show_adult_content) ==
    IF ~show_adult_content
    THEN LET adult_mask(row) == ~is_adult_content(row)
         IN DataFrame(SelectSeq(filtered_df.rows, adult_mask))
    ELSE filtered_df

(* the ids of the entries, [fav.get('id') for fav in entries] *)
ids_of(entries) == {entries[i].id : i \in 1..Len(entries)}

filter_by_favorites_and_lists(ss, frame, filter_type, selected_list) ==
    IF filter_type = "Favorites"
    THEN LET favorite_ids == ids_of(ss.favorites)
         IN IF favorite_ids # {}
            THEN DataFrame(SelectSeq(frame.rows, LAMBDA row :
                    get_game_id(row) \in favorite_ids))
            ELSE EmptyFrame
    ELSE IF filter_type = "Custom List" /\ selected_list # <<>>
    THEN IF selected_list \in DOMAIN ss.custom_lists
            /\ ids_of(ss.custom_lists[selected_list]) # {}
         THEN DataFrame(SelectSeq(frame.rows, LAMBDA row :
                 get_game_id(row) \in ids_of(ss.custom_lists[selected_list])))
         ELSE EmptyFrame
    ELSE frame

(* main, "Favorites and Lists filter" *)
list_filtered(ss, filtered_df, selected_list_filter) ==
    IF selected_list_filter # All
    THEN IF selected_list_filter = Favorites
         THEN filter_by_favorites_and_lists(ss, filtered_df, "Favorites", <<>>)
         ELSE filter_by_favorites_and_lists(ss, filtered_df, "Custom List",
                                            selected_list_filter)
    ELSE filtered_df

(* main, list_filter_options: the options of the "Show List" selectbox,    *)
(* the two it starts with and one for each custom list                     *)
show_list_options(ss) ==
    {[custom |-> FALSE, value |-> All], [custom |-> FALSE, value |-> Favorites]}
    \cup {[custom |-> TRUE, value |-> list_name] :
                list_name \in DOMAIN ss.custom_lists}

(* what the selectbox can return: the text of the option picked *)
list_filter_options(ss) == {option.value : option \in show_list_options(ss)}

(* main, all_tags: the options of the two tag multiselects *)
all_tags(frame) ==
    IF "CommunityTags" \in columns(frame)
    THEN UNION { LET pieces == split(astype_str(frame.rows[i].CommunityTags))
                 IN {strip(pieces[n]) : n \in {m \in 1..Len(pieces) :
                                                  strip(pieces[m]) # <<>>}}
                 : i \in {j \in 1..Len(frame.rows) :
                             /\ notna(frame.rows[j].CommunityTags)
                             /\ strip(astype_str(frame.rows[j].CommunityTags)) # <<>>} }
    ELSE {}

(* main, "Apply filters": the table after each filter, in the code's order *)
apply_filters(ss, frame, criteria) ==
    LET after_keyword == IF criteria.keyword_search # <<>>
                         THEN filter_games_by_keywords(frame, criteria.keyword_search)
                         ELSE frame
        after_include == include_tags(after_keyword, criteria.selected_tags)
        after_exclude == exclude_tags(after_include, criteria.excluded_tags)
        after_demo == demo_filtered(after_exclude, criteria.demo_filter)
        after_status == release_status_filtered(after_demo,
                                                criteria.release_status_filter)
        after_adult == adult_filtered(after_status, criteria.show_adult_content)
        after_list == list_filtered(ss, after_adult, criteria.selected_list_filter)
    IN <<frame, after_keyword, after_include, after_exclude, after_demo,
         after_status, after_adult, after_list>>

(* Sort stage of main() *)

(* the characters of the catalogs' names, in code point order *)
Charset ==
    <<" ", ",", "/", "0", "1", "2", "3", "5", "7",
      "A", "B", "C", "D", "E", "F", "G", "H", "I", "J", "K", "L", "M",
      "N", "O", "P", "Q", "R", "S", "T", "U", "V", "W", "X", "Y", "Z", "_",
      "a", "b", "c", "d", "e", "f", "g", "h", "i", "j", "k", "l", "m",
      "n", "o", "p", "q", "r", "s", "t", "u", "v", "w", "x", "y", "z">>

ord(c) == CHOOSE i \in 1..Len(Charset) : Charset[i] = c

(* a < b on str *)
RECURSIVE str_lt(_, _)
str_lt(a, b) ==
    IF b = <<>> THEN FALSE
    ELSE IF a = <<>> THEN TRUE
    ELSE IF a[1] # b[1] THEN ord(a[1]) < ord(b[1])
    ELSE str_lt(Tail(a), Tail(b))

(* sort_values that leaves the rows as they come *)
sort_values_unsorted(frame, before, stable) == {frame}

(* the orders sort_values can give: `before` is the strict order of the    *)
(* sort keys, as the pairs of rows of which the first has the smaller key; *)
(* rows with equal keys stay in their order when the sort is stable        *)
(* (several columns: a lexsort) and come in any order when it is not (one  *)
(* column: kind='quicksort', the default).                                 *)
sort_values(frame, before, stable) ==
    LET rows == frame.rows
        n == Len(rows)
        sorted(p) ==
            \A i, j \in 1..n :
                i < j => /\ <<rows[p[j]], rows[p[i]]>> \notin before
                         /\ (stable /\ <<rows[p[i]], rows[p[j]]>> \notin before)
                            => p[i] < p[j]
    IN {DataFrame([i \in 1..n |-> rows[p[i]]]) :
            p \in {q \in Permutations(1..n) : sorted(q)}}

name_lt(a, b) == str_lt(a.Name.val, b.Name.val)

same_date(a, b) == a.DateAdded = b.DateAdded

(* status_order.get(x, 3) *)
status_order(x) ==
    IF x.kind # "text" THEN 3
    ELSE CASE x.val = released -> 0
           [] x.val = coming_soon -> 1
           [] x.val = distant_future -> 2
           [] OTHER -> 3

(* the sort stage that sorts by Name when it does not know the option *)
sort_stage_else_by_name(filtered_df, sort_option) ==
    LET keyed == {filtered_df.rows[i] : i \in 1..Len(filtered_df.rows)}
        pairs == keyed \X keyed
        newest ==
            {r \in pairs :
                \/ notna(r[1].DateAdded)
                    /\ (~notna(r[2].DateAdded)
                        \/ r[1].DateAdded.val > r[2].DateAdded.val)
                \/ same_date(r[1], r[2]) /\ name_lt(r[1], r[2])}
        oldest ==
            {r \in pairs :
                \/ notna(r[2].DateAdded)
                    /\ (~notna(r[1].DateAdded)
                        \/ r[1].DateAdded.val < r[2].DateAdded.val)
                \/ same_date(r[1], r[2]) /\ name_lt(r[1], r[2])}
        name_asc == {r \in pairs : name_lt(r[1], r[2])}
        name_desc == {r \in pairs : name_lt(r[2], r[1])}
        by_status ==
            {r \in pairs :
                \/ status_order(r[1].ReleaseStatus)
                        < status_order(r[2].ReleaseStatus)
                \/ status_order(r[1].ReleaseStatus)
                        = status_order(r[2].ReleaseStatus)
                    /\ name_lt(r[1], r[2])}
    IN IF filtered_df.rows = <<>> THEN {filtered_df}
       ELSE CASE sort_option = "Date Added (Newest First)" ->
                    sort_values(filtered_df, newest, TRUE)
              [] sort_option = "Date Added (Oldest First)" ->
                    sort_values(filtered_df, oldest, TRUE)
              [] sort_option = "Name (A-Z)" ->
                    sort_values(filtered_df, name_asc, FALSE)
              [] sort_option = "Name (Z-A)" ->
                    sort_values(filtered_df, name_desc, FALSE)
              [] sort_option = "Release Status" ->
                    IF "ReleaseStatus" \in columns(filtered_df)
                    THEN sort_values(filtered_df, by_status, TRUE)
                    ELSE {filtered_df}
              [] OTHER -> sort_values(filtered_df, name_asc, FALSE)

(* main, "Apply sorting": the tables the sort stage can give *)
sort_stage(filtered_df, sort_option) ==
    LET keyed == {filtered_df.rows[i] : i \in 1..Len(filtered_df.rows)}
        pairs == keyed \X keyed
        newest ==
            {r \in pairs :
                \/ notna(r[1].DateAdded)
                    /\ (~notna(r[2].DateAdded)
                        \/ r[1].DateAdded.val > r[2].DateAdded.val)
                \/ same_date(r[1], r[2]) /\ name_lt(r[1], r[2])}
        oldest ==
            {r \in pairs :
                \/ notna(r[2].DateAdded)
                    /\ (~notna(r[1].DateAdded)
                        \/ r[1].DateAdded.val < r[2].DateAdded.val)
                \/ same_date(r[1], r[2]) /\ name_lt(r[1], r[2])}
        name_asc == {r \in pairs : name_lt(r[1], r[2])}
        name_desc == {r \in pairs : name_lt(r[2], r[1])}
        by_status ==
            {r \in pairs :
                \/ status_order(r[1].ReleaseStatus)
                        < status_order(r[2].ReleaseStatus)
                \/ status_order(r[1].ReleaseStatus)
                        = status_order(r[2].ReleaseStatus)
                    /\ name_lt(r[1], r[2])}
    IN IF filtered_df.rows = <<>> THEN {filtered_df}
       ELSE CASE sort_option = "Date Added (Newest First)" ->
                    sort_values(filtered_df, newest, TRUE)
              [] sort_option = "Date Added (Oldest First)" ->
                    sort_values(filtered_df, oldest, TRUE)
              [] sort_option = "Name (A-Z)" ->
                    sort_values(filtered_df, name_asc, FALSE)
              [] sort_option = "Name (Z-A)" ->
                    sort_values(filtered_df, name_desc, FALSE)
              [] sort_option = "Release Status" ->
                    IF "ReleaseStatus" \in columns(filtered_df)
                    THEN sort_values(filtered_df, by_status, TRUE)
                    ELSE {filtered_df}
              [] OTHER -> {filtered_df}

(* the widgets as a first run shows them *)
DefaultCriteria ==
    [keyword_search |-> <<>>, selected_tags |-> {}, excluded_tags |-> {},
     demo_filter |-> "All", release_status_filter |-> "All",
     show_adult_content |-> FALSE, selected_list_filter |-> All,
     sort_option |-> "Date Added (Newest First)"]

----------------------------------------------------------------------------
(* Local time *)

DateOf(t) == t \div HoursPerDay
HourOf(t) == t % HoursPerDay

(* the year's DST change dates, at 00:00, as the code computes them *)
Calendars ==
    { [march_last_sunday |-> 5000, october_last_sunday |-> 9000],  \* winter
      [march_last_sunday |-> 72, october_last_sunday |-> 9000],    \* spring
      [march_last_sunday |-> 0 - 5000, october_last_sunday |-> 9000], \* summer
      [march_last_sunday |-> 0 - 5000, october_last_sunday |-> 72] }  \* autumn

get_croatian_time(utc_now) ==
    LET croatia_offset ==
            IF calendar.march_last_sunday <= utc_now
               /\ utc_now < calendar.october_last_sunday
            THEN CEST ELSE CET
    IN utc_now + croatia_offset

(* croatia_time.replace(hour=20, minute=0, second=0, microsecond=0) *)
ReplaceHour(t, h) == DateOf(t) * HoursPerDay + h

(* should_update_cache comparing with <= *)
should_update_cache_le(ss, utc_now) ==
    IF "last_cache_update" \notin DOMAIN ss THEN TRUE
    ELSE LET croatia_time == get_croatian_time(utc_now)
             last_update == ss.last_cache_update
         IN IF HourOf(croatia_time) >= UpdateHour
            THEN last_update <= ReplaceHour(croatia_time, UpdateHour)
            ELSE FALSE

should_update_cache(ss, utc_now) ==
    IF "last_cache_update" \notin DOMAIN ss THEN TRUE
    ELSE LET croatia_time == get_croatian_time(utc_now)
             last_update == ss.last_cache_update
         IN IF HourOf(croatia_time) >= UpdateHour
            THEN last_update < ReplaceHour(croatia_time, UpdateHour)
            ELSE FALSE

(* get_cache_key switching keys after the hour of 20:00 instead of at it *)
get_cache_key_gt(utc_now) ==
    LET croatia_time == get_croatian_time(utc_now)
    IN IF HourOf(croatia_time) > UpdateHour
       THEN DateOf(croatia_time)
       ELSE DateOf(croatia_time - HoursPerDay)

(* The key is the text "steam_data_<date>"; it is modelled by its date. *)
get_cache_key(utc_now) ==
    LET croatia_time == get_croatian_time(utc_now)
    IN IF HourOf(croatia_time) >= UpdateHour
       THEN DateOf(croatia_time)
       ELSE DateOf(croatia_time - HoursPerDay)

(* st.session_state.data_cache, an empty dict while the key is missing *)
CacheOf(ss) == IF "data_cache" \in DOMAIN ss THEN ss.data_cache ELSE <<>>

get_cached_data(ss, utc_now) ==
    LET cache_key == get_cache_key(utc_now)
        data_cache == CacheOf(ss)
    IN IF cache_key \in DOMAIN data_cache
       THEN <<data_cache[cache_key].data, data_cache[cache_key].timestamp>>
       ELSE <<None, None>>

(* the initialisation without its test: data_cache is emptied *)
init_data_cache_reset(ss) ==
    ("data_cache" :> <<>>) @@ [k \in DOMAIN ss \ {"data_cache"} |-> ss[k]]

(* "if 'data_cache' not in st.session_state: st.session_state.data_cache = {}" *)
init_data_cache(ss) ==
    IF "data_cache" \in DOMAIN ss THEN ss ELSE ("data_cache" :> <<>>) @@ ss

(* key.endswith(str(date)) for a key "steam_data_<date'>" *)
endswith(key, date) == key = date

(* set_cached_data without the clean-up loop *)
set_cached_data_keep_all(ss, data, utc_key, utc_ts) ==
    LET cache_key == get_cache_key(utc_key)
        croatia_time == get_croatian_time(utc_ts)
        entry == [data |-> data, timestamp |-> croatia_time]
        stored == (cache_key :> entry) @@ CacheOf(ss)
    IN ("data_cache" :> stored) @@ ("last_cache_update" :> croatia_time) @@ ss

(* set_cached_data whose clean-up keeps only the previous day's key *)
set_cached_data_drop_current(ss, data, utc_key, utc_ts) ==
    LET cache_key == get_cache_key(utc_key)
        croatia_time == get_croatian_time(utc_ts)
        entry == [data |-> data, timestamp |-> croatia_time]
        stored == (cache_key :> entry) @@ CacheOf(ss)
        keys_to_remove ==
            { key \in DOMAIN stored :
                ~endswith(key, DateOf(croatia_time - HoursPerDay)) }
        cleaned == [key \in DOMAIN stored \ keys_to_remove |-> stored[key]]
    IN ("data_cache" :> cleaned) @@ ("last_cache_update" :> croatia_time) @@ ss

(* set_cached_data whose clean-up loop runs over st.session_state instead  *)
(* of data_cache, so that the next run starts favorites and lists afresh   *)
set_cached_data_wipe(ss, data, utc_key, utc_ts) ==
    LET cache_key == get_cache_key(utc_key)
        croatia_time == get_croatian_time(utc_ts)
        entry == [data |-> data, timestamp |-> croatia_time]
        stored == (cache_key :> entry) @@ CacheOf(ss)
    IN ("data_cache" :> stored) @@ ("last_cache_update" :> croatia_time)
         @@ ("favorites" :> <<>>) @@ ("custom_lists" :> <<>>) @@ ss

(* utc_key is the clock reading inside get_cache_key(), utc_ts the one     *)
(* inside the get_croatian_time() call that follows it.                    *)
set_cached_data(ss, data, utc_key, utc_ts) ==
    LET cache_key == get_cache_key(utc_key)
        croatia_time == get_croatian_time(utc_ts)
        data_cache == CacheOf(ss)
        entry == [data |-> data, timestamp |-> croatia_time]
        stored == (cache_key :> entry) @@ data_cache
        keys_to_remove ==
            { key \in DOMAIN stored :
                key # cache_key
                /\ ~endswith(key, DateOf(croatia_time - HoursPerDay)) }
        cleaned == [key \in DOMAIN stored \ keys_to_remove |-> stored[key]]
    IN ("data_cache" :> cleaned) @@ ("last_cache_update" :> croatia_time) @@ ss

----------------------------------------------------------------------------
(* load_steam_data.  `reads` gives the clock at the four places the cycle  *)
(* reads it: 1 get_cached_data/get_cache_key, 2 should_update_cache,       *)
(* 3 set_cached_data/get_cache_key, 4 set_cached_data/get_croatian_time.   *)
(* `outcome` is what the credentials and the spreadsheet do this time and  *)
(* `sheet` the records a successful read returns.                          *)

Outcomes ==
    { "ok",              \* get_all_records() returns at least one record
      "empty",           \* get_all_records() returns no record
      "exception",       \* credentials, authorize, open or read raises
      "bad_json",        \* json.loads raises JSONDecodeError
      "missing_fields",  \* a required credential field is missing
      "no_worksheet" }   \* gspread.WorksheetNotFound

(* load_steam_data that reads the sheet a second time when the read raises *)
load_steam_data_retry(ss0, reads, outcome, sheet) ==
    LET ss == init_data_cache(ss0)
        got == get_cached_data(ss, reads[1])
        cached_data == got[1]
        checked == cached_data # None
        use_cache == checked /\ ~should_update_cache(ss, reads[2])
        obs == [op |-> "load",
                lookup_at |-> reads[1],
                cached_data |-> cached_data,
                checked_at |-> IF checked THEN reads[2] ELSE 0 - 1]
    IN IF use_cache
       THEN [ss |-> ss, returned |-> cached_data,
             obs |-> obs @@ [outcome |-> "cached", fetches |-> 0]]
       ELSE IF outcome \in {"bad_json", "missing_fields"}
       THEN [ss |-> ss, returned |-> EmptyFrame,
             obs |-> obs @@ [outcome |-> outcome, fetches |-> 0]]
       ELSE IF outcome \in {"empty", "no_worksheet"}
       THEN [ss |-> ss, returned |-> EmptyFrame,
             obs |-> obs @@ [outcome |-> outcome, fetches |-> 1]]
       ELSE IF outcome = "exception"
       THEN [ss |-> ss,
             returned |-> IF cached_data # None THEN cached_data ELSE EmptyFrame,
             obs |-> obs @@ [outcome |-> outcome, fetches |-> 2]]
       ELSE [ss |-> set_cached_data(ss, convert_types(sheet), reads[3], reads[4]),
             returned |-> convert_types(sheet),
             obs |-> obs @@ [outcome |-> outcome, fetches |-> 1]]

load_steam_data(ss0, reads, outcome, sheet) ==
    LET ss == init_data_cache(ss0)
        got == get_cached_data(ss, reads[1])
        cached_data == got[1]
        checked == cached_data # None
        use_cache == checked /\ ~should_update_cache(ss, reads[2])
        obs == [op |-> "load",
                lookup_at |-> reads[1],
                cached_data |-> cached_data,
                checked_at |-> IF checked THEN reads[2] ELSE 0 - 1]
    IN IF use_cache
       THEN [ss |-> ss, returned |-> cached_data,
             obs |-> obs @@ [outcome |-> "cached", fetches |-> 0]]
       ELSE IF outcome \in {"bad_json", "missing_fields"}
       THEN [ss |-> ss, returned |-> EmptyFrame,
             obs |-> obs @@ [outcome |-> outcome, fetches |-> 0]]
       ELSE IF outcome \in {"empty", "no_worksheet"}
       THEN [ss |-> ss, returned |-> EmptyFrame,
             obs |-> obs @@ [outcome |-> outcome, fetches |-> 1]]
       ELSE IF outcome = "exception"
       THEN [ss |-> ss,
             returned |-> IF cached_data # None THEN cached_data ELSE EmptyFrame,
             obs |-> obs @@ [outcome |-> outcome, fetches |-> 1]]
       ELSE [ss |-> set_cached_data(ss, convert_types(sheet), reads[3], reads[4]),
             returned |-> convert_types(sheet),
             obs |-> obs @@ [outcome |-> outcome, fetches |-> 1]]

----------------------------------------------------------------------------
(* The state machine *)

(* main(), first run: games_shown and init_favorites_state() *)
InitialSessionState ==
    [games_shown |-> PageSize,
     favorites |-> <<>>,
     custom_lists |-> <<>>,
     selected_list_filter |-> "All"]

Init ==
    /\ clock = StartClock
    /\ calendar \in Calendars
    /\ session_state = InitialSessionState
    /\ df = None
    /\ cycle = [op |-> "start"]
    /\ last_put = None
    /\ hash_seed \in Seeds
    /\ widgets = DefaultCriteria

(* Wall-clock time passes between two script runs: the next run starts at *)
(* the next visiting hour.                                                 *)
NextVisit(t, hours) ==
    CHOOSE u \in (t + 1)..(t + HoursPerDay) :
        /\ HourOf(u) \in hours
        /\ \A v \in (t + 1)..(u - 1) : HourOf(v) \notin hours

Advance(hours) ==
    /\ NextVisit(clock, hours) <= StartClock + Horizon
    /\ clock' = NextVisit(clock, hours)
    /\ cycle' = [op |-> "advance"]
    /\ UNCHANGED <<calendar, session_state, df, last_put, hash_seed, widgets>>

(* One script run up to "df = load_steam_data()".  The clock may move on   *)
(* to the next hour before any of the cycle's readings (tick = 5: it does  *)
(* not), when that hour is a visiting hour too.                            *)
LoadSteamData(hours, sheets) ==
    \E tick \in 1..5, outcome \in Outcomes, sheet \in sheets :
        LET reads == [i \in 1..4 |-> IF i >= tick THEN clock + 1 ELSE clock]
            run == load_steam_data(session_state, reads, outcome, sheet)
        IN /\ outcome # "ok" => sheet = AnySheet(sheets)
           /\ tick < 5 => HourOf(clock + 1) \in hours
           /\ reads[4] <= StartClock + Horizon
           /\ clock' = reads[4]
           /\ session_state' = run.ss
           /\ df' = run.returned
           /\ cycle' = run.obs
           /\ last_put' =
                 IF run.obs.outcome = "ok"
                 THEN [data |-> run.returned,
                       ids |-> [i \in 1..Len(run.returned.rows) |->
                                   get_game_id(run.returned.rows[i])],
                       key_at |-> reads[3], timestamp_at |-> reads[4],
                       evicted |-> DOMAIN CacheOf(session_state)
                                     \ DOMAIN CacheOf(run.ss)]
                 ELSE last_put
           /\ UNCHANGED <<calendar, hash_seed, widgets>>

(* The cache alone, visited around every local 20:00 and every 00:00 UTC. *)
AdvanceCache == Advance(VisitHours)
LoadCache == LoadSteamData(VisitHours, RawSheets)
NextCache == AdvanceCache \/ LoadCache

SpecCache == Init /\ [][NextCache]_vars

----------------------------------------------------------------------------
(* User actions on the rendered page.  main() stops before drawing any     *)
(* widget when df is empty, and draws a card for each of the first         *)
(* games_shown rows.                                                       *)

Rendered == df # None /\ df # EmptyFrame

Cards ==
    IF Rendered
    THEN {df.rows[i] : i \in {j \in 1..Len(df.rows) : j <= session_state.games_shown}}
    ELSE {}

(* the entries hold an entry of this key *)
HasKey(entries, game_id) ==
    \E i \in 1..Len(entries) : entries[i].id = game_id

ToggleFavorite ==
    \E game \in Cards :
        /\ session_state' = create_favorite_button(session_state, game)
        /\ cycle' = [op |-> "favorite", game_id |-> get_game_id(game),
                     game |-> game]
        /\ UNCHANGED <<clock, calendar, df, last_put, hash_seed, widgets>>

AddToList ==
    \E game \in Cards, selected_list \in DOMAIN session_state.custom_lists :
        /\ session_state' = add_to_list(session_state, game, selected_list)
        /\ cycle' = [op |-> "add", game_id |-> get_game_id(game),
                                  list |-> selected_list,
                                  present |-> HasKey(session_state.custom_lists[selected_list],
                                                     get_game_id(game))]
        /\ UNCHANGED <<clock, calendar, df, last_put, hash_seed, widgets>>

RemoveFromList ==
    \E game \in Cards, selected_list \in DOMAIN session_state.custom_lists :
        /\ is_game_in_list(session_state, get_game_id(game), selected_list)
        /\ session_state' = remove_from_list(session_state, game, selected_list)
        /\ cycle' = [op |-> "remove", game_id |-> get_game_id(game),
                                     list |-> selected_list]
        /\ UNCHANGED <<clock, calendar, df, last_put, hash_seed, widgets>>

CreateListOf(names) ==
    \E new_list_name \in names :
        /\ Rendered
        /\ session_state' = create_list(session_state, new_list_name)
        /\ cycle' = [op |-> "create", list |-> new_list_name,
                     message |-> create_list_message(session_state, new_list_name)]
        /\ UNCHANGED <<clock, calendar, df, last_put, hash_seed, widgets>>

CreateList == CreateListOf(NameInputs)

DeleteList ==
    \E list_name \in DOMAIN session_state.custom_lists :
        /\ Rendered
        /\ session_state' = delete_list(session_state, list_name)
        /\ cycle' = [op |-> "delete", list |-> list_name]
        /\ UNCHANGED <<clock, calendar, df, last_put, hash_seed, widgets>>

NextCuration ==
    ToggleFavorite \/ AddToList \/ RemoveFromList \/ CreateList \/ DeleteList

(* The whole page in a summer week, visited once a day around local 20:00, *)
(* served by one process.                                                  *)
InitPage ==
    /\ Init
    /\ hash_seed = 1
    /\ calendar.march_last_sunday <= StartClock
    /\ calendar.october_last_sunday > StartClock + Horizon + 1

AdvanceDaily == Advance(DailyHours)
LoadDaily == LoadSteamData(DailyHours, PageSheets)
Next == AdvanceDaily \/ LoadDaily \/ NextCuration

Spec == InitPage /\ [][Next]_vars

(* One script run with a sidebar widget set to a new value: main() gets    *)
(* the widgets' values and filters the table by them.                      *)
KeywordInputs ==
    { <<>>, <<" ">>, <<",", " ">>, <<"r", "p", "g">>,
      <<"D", "o", ",", " ", "x">> }

(* what a tag multiselect can return: up to two of its options *)
TagSelections(frame) == {T \in SUBSET all_tags(frame) : Cardinality(T) <= 2}

(* the values the widgets can have after one of them is set *)
Changed(old, ss, frame) ==
    {[old EXCEPT !.keyword_search = v] : v \in KeywordInputs}
    \cup {[old EXCEPT !.selected_tags = v] : v \in TagSelections(frame)}
    \cup {[old EXCEPT !.excluded_tags = v] : v \in TagSelections(frame)}
    \cup {[old EXCEPT !.demo_filter = v] : v \in {"All", "Has Demo"}}
    \cup {[old EXCEPT !.release_status_filter = v] :
                v \in {"All", "Released", "Coming Soon", "Distant Future"}}
    \cup {[old EXCEPT !.show_adult_content = v] : v \in BOOLEAN}
    \cup {[old EXCEPT !.selected_list_filter = v] : v \in list_filter_options(ss)}

ApplyFilters ==
    \E criteria \in Changed(widgets, session_state, df) :
        /\ Rendered
        /\ widgets' = criteria
        /\ cycle' = [op |-> "render",
                     stages |-> apply_filters(session_state, df, criteria)]
        /\ UNCHANGED <<clock, calendar, session_state, df, last_put, hash_seed>>

(* One script run with an option of "Show List" picked. *)
ShowList ==
    \E option \in show_list_options(session_state) :
        /\ Rendered
        /\ widgets' = [widgets EXCEPT !.selected_list_filter = option.value]
        /\ cycle' = [op |-> "render", picked |-> option,
                     stages |-> apply_filters(session_state, df, widgets')]
        /\ UNCHANGED <<clock, calendar, session_state, df, last_put, hash_seed>>

(* Favorites, lists and the list filter, on a table already loaded. *)
InitLists ==
    /\ clock = StartClock
    /\ calendar \in Calendars
    /\ calendar.march_last_sunday <= StartClock
    /\ calendar.october_last_sunday > StartClock + Horizon + 1
    /\ session_state = InitialSessionState
    /\ df \in {convert_types(sheet) : sheet \in ListSheets}
    /\ cycle = [op |-> "start"]
    /\ last_put = None
    /\ hash_seed = 1
    /\ widgets = DefaultCriteria

CreateNamedList == CreateListOf(ListNames)

NextLists == ToggleFavorite \/ AddToList \/ CreateNamedList \/ ShowList

SpecLists == InitLists /\ [][NextLists]_vars

(* main, "Load More Games" clicked: a page more *)
load_more_two_pages(ss) == [ss EXCEPT !.games_shown = @ + PageSize + PageSize]

load_more(ss) == [ss EXCEPT !.games_shown = @ + PageSize]

(* the filtered table of a script run with the widgets as they are *)
filtered_now(ss, frame, criteria) == apply_filters(ss, frame, criteria)[8]

(* The button is drawn at the bottom of a page that shows results, while   *)
(* the filtered table has more rows than games_shown.                      *)
LoadMore ==
    LET filtered_df == filtered_now(session_state, df, widgets)
    IN /\ Rendered
       /\ filtered_df.rows # <<>>
       /\ session_state.games_shown < Len(filtered_df.rows)
       /\ session_state' = load_more(session_state)
       /\ cycle' = [op |-> "load_more", results |-> Len(filtered_df.rows)]
       /\ UNCHANGED <<clock, calendar, df, last_put, hash_seed, widgets>>

(* The page of a long catalog in a summer week: refreshes, Load More, the  *)
(* list filter and the favorite buttons.                                   *)
LoadLong == LoadSteamData(DailyHours, LongSheets)

NextPaging == AdvanceDaily \/ LoadLong \/ LoadMore \/ ToggleFavorite \/ ShowList

SpecPaging == InitPage /\ [][NextPaging]_vars

(* One script run with the sort option or the release status set: the      *)
(* filtered table, the table the sort stage makes of it, and the table the *)
(* sort stage makes of that one.  The two inputs range over the options of *)
(* their selectboxes and a value that is none of them.                     *)
SortOptions ==
    {"Date Added (Newest First)", "Date Added (Oldest First)", "Name (A-Z)",
     "Name (Z-A)", "Release Status"}

StatusOptions == {"All", "Released", "Coming Soon", "Distant Future"}

ApplySort ==
    \E criteria \in
            {[widgets EXCEPT !.sort_option = v] :
                v \in SortOptions \cup {"Price"}}
            \cup {[widgets EXCEPT !.release_status_filter = v] :
                v \in StatusOptions \cup {"Cancelled"}} :
        LET stages == apply_filters(session_state, df, criteria)
        IN \E sorted \in sort_stage(stages[8], criteria.sort_option) :
             \E again \in sort_stage(sorted, criteria.sort_option) :
                /\ Rendered
                /\ widgets' = criteria
                /\ cycle' = [op |-> "render", stages |-> stages,
                             sorted |-> sorted, again |-> again]
                /\ UNCHANGED <<clock, calendar, session_state, df, last_put,
                               hash_seed>>

(* The sort stage alone, on a table already loaded. *)
InitSort ==
    /\ clock = StartClock
    /\ calendar \in Calendars
    /\ calendar.march_last_sunday <= StartClock
    /\ calendar.october_last_sunday > StartClock + Horizon + 1
    /\ session_state = InitialSessionState
    /\ df \in {convert_types(sheet) : sheet \in SortSheets}
    /\ cycle = [op |-> "start"]
    /\ last_put = None
    /\ hash_seed = 1
    /\ widgets = DefaultCriteria

SpecSort == InitSort /\ [][ApplySort]_vars

(***************************************************************************)
(* The DST dates of get_croatian_time                                      *)
(***************************************************************************)

(* the years the clock is read in *)
FirstYear == 2019
LastYear == 2030

(* datetime(year, month, day), at 00:00 *)
datetime(year, month, day) == [year |-> year, month |-> month, day |-> day]

is_leap(year) == year % 4 = 0 /\ (year % 100 # 0 \/ year % 400 = 0)

days_in_month(year, month) ==
    IF month = 2 THEN (IF is_leap(year) THEN 29 ELSE 28)
    ELSE IF month \in {4, 6, 9, 11} THEN 30 ELSE 31

RECURSIVE days_before_month(_, _)
days_before_month(year, month) ==
    IF month = 1 THEN 0
    ELSE days_before_month(year, month - 1) + days_in_month(year, month - 1)

(* date.toordinal(): the days from 0001-01-01, which is day 1 *)
toordinal(date) ==
    LET y == date.year - 1
    IN y * 365 + (y \div 4) - (y \div 100) + (y \div 400)
       + days_before_month(date.year, date.month) + date.day

(* date.weekday(): Monday is 0, Sunday is 6 *)
weekday(date) == (toordinal(date) + 6) % 7

(* datetime(year, 3, 31) - timedelta(days=datetime(year, 3, 31).weekday()  *)
(* + 1 % 7), as an ordinal; % binds tighter than +.                        *)
march_last_sunday(year) ==
    toordinal(datetime(year, 3, 31))
        - (weekday(datetime(year, 3, 31)) + (1 % 7))

october_last_sunday(year) ==
    toordinal(datetime(year, 10, 31))
        - (weekday(datetime(year, 10, 31)) + (1 % 7))

(* the offset get_croatian_time adds when the UTC date is utc_now *)
croatia_offset(utc_now) ==
    IF /\ march_last_sunday(utc_now.year) <= toordinal(utc_now)
       /\ toordinal(utc_now) < october_last_sunday(utc_now.year)
    THEN CEST ELSE CET

(* the days of the years the clock is read in *)
UtcDates ==
    UNION {{datetime(year, month, day) : day \in 1..days_in_month(year, month)} :
              year \in FirstYear..LastYear, month \in 1..12}

(* get_croatian_time called on the day the process runs *)
GetCroatianTime ==
    /\ cycle.op = "start"
    /\ "utc_now" \in DOMAIN cycle
    /\ cycle' = [op |-> "time", utc_now |-> cycle.utc_now,
                 croatia_offset |-> croatia_offset(cycle.utc_now)]
    /\ UNCHANGED <<clock, calendar, session_state, df, last_put,
                   hash_seed, widgets>>

InitDst ==
    /\ clock = StartClock
    /\ calendar \in Calendars
    /\ calendar.march_last_sunday <= StartClock
    /\ calendar.october_last_sunday > StartClock + Horizon + 1
    /\ session_state = InitialSessionState
    /\ df = EmptyFrame
    /\ cycle \in {[op |-> "start", utc_now |-> date] : date \in UtcDates}
    /\ last_put = None
    /\ hash_seed = 1
    /\ widgets = DefaultCriteria

SpecDst == InitDst /\ [][GetCroatianTime]_vars

(* The filters alone, on a table already loaded. *)
InitFilter ==
    /\ clock = StartClock
    /\ calendar \in Calendars
    /\ calendar.march_last_sunday <= StartClock
    /\ calendar.october_last_sunday > StartClock + Horizon + 1
    /\ session_state = InitialSessionState
    /\ df \in {convert_types(sheet) : sheet \in FilterSheets}
    /\ cycle = [op |-> "start"]
    /\ last_put = None
    /\ hash_seed = 1
    /\ widgets = DefaultCriteria

SpecFilter == InitFilter /\ [][ApplyFilters]_vars

(* The server process ends and a new one starts (a redeploy, a reboot of   *)
(* the host): the new interpreter draws its hash key, and the next script  *)
(* run starts from an empty st.session_state.                              *)
Restart ==
    /\ \E seed \in Seeds : hash_seed' = seed
    /\ session_state' = InitialSessionState
    /\ df' = None
    /\ cycle' = [op |-> "restart"]
    /\ widgets' = DefaultCriteria
    /\ UNCHANGED <<clock, calendar, last_put>>

(* The page served over several days by processes that come and go. *)
NextProcess == AdvanceDaily \/ LoadDaily \/ Restart

SpecProcess == Init /\ [][NextProcess]_vars

----------------------------------------------------------------------------
(* Notions the properties are stated with *)

LocalHourAt(utc) == HourOf(get_croatian_time(utc))

(* a local 20:00 lies after instant a and not after instant b *)
BoundaryBetween(a, b) ==
    \E u \in (a + 1)..b : LocalHourAt(u) = UpdateHour

(* the most recent local 20:00 that has passed at `utc`, as a local time *)
LastBoundary(utc) ==
    LET local == get_croatian_time(utc)
        today == DateOf(local) * HoursPerDay + UpdateHour
    IN IF local >= today THEN today ELSE today - HoursPerDay

(* the window (named by the date of its opening 20:00) holding a local time *)
WindowOf(local) == DateOf(local - UpdateHour)

Stored(ss) == "last_cache_update" \in DOMAIN ss

JustLoaded == cycle.op = "load"
JustPut == cycle.op = "load" /\ cycle.outcome = "ok"

----------------------------------------------------------------------------
(* C1 (as claimed): when the fetch raises and data_cache holds an entry of *)
(* the current window or of the window before it, load_steam_data returns  *)
(* that entry's table, not an empty table.                                 *)
C1_FallbackToAnyEntry ==
    [][ (/\ cycle'.op = "load"
         /\ cycle'.outcome = "exception"
         /\ LET key == get_cache_key(cycle'.lookup_at)
            IN {key, key - 1} \cap DOMAIN CacheOf(session_state) # {})
        => LET key == get_cache_key(cycle'.lookup_at)
               cache == CacheOf(session_state)
           IN /\ df' # EmptyFrame
              /\ \E k \in {key, key - 1} \cap DOMAIN cache : df' = cache[k].data
      ]_vars

(* C2 (as claimed): should_update_cache is true whenever the recorded      *)
(* last_cache_update is earlier than the most recent local 20:00 that has  *)
(* passed, also when it is now before 20:00.                               *)
C2_StaleMeansUpdate ==
    (Stored(session_state)
        /\ session_state.last_cache_update < LastBoundary(clock))
    => should_update_cache(session_state, clock)

(* C3 (as claimed): a put removes exactly the entries whose key is neither *)
(* the current window key nor the key of the window one day before it.     *)
C3_EvictsExactlyOlder ==
    [][ (cycle'.op = "load" /\ cycle'.outcome = "ok")
        => LET key == get_cache_key(last_put'.key_at)
               before == DOMAIN CacheOf(session_state)
           IN DOMAIN CacheOf(session_state')
                = {k \in before \cup {key} : k \in {key, key - 1}}
      ]_vars

(* C4: two instants have the same cache key exactly when no local 20:00    *)
(* separates them, and the key is the local date from 20:00 on and the     *)
(* date of the day before earlier in the day.                              *)
C4_KeyChangesAtBoundary ==
    /\ \A a \in StartClock..clock :
          (get_cache_key(a) = get_cache_key(clock)) <=> ~BoundaryBetween(a, clock)
    /\ LET local == get_croatian_time(clock)
       IN get_cache_key(clock)
            = IF HourOf(local) >= UpdateHour
              THEN DateOf(local) ELSE DateOf(local) - 1

C4_Witness ==
    /\ JustLoaded
    /\ BoundaryBetween(StartClock, clock)
    /\ LocalHourAt(clock) = UpdateHour

(* C5: should_update_cache is true while no fetch has been recorded, and   *)
(* false at the instant of a put that has just completed, whatever hour of *)
(* the day the put is made at.                                             *)
C5_FreshAfterPut ==
    /\ ~Stored(session_state) => should_update_cache(session_state, clock)
    /\ JustPut => ~should_update_cache(session_state, last_put.timestamp_at)
    /\ \A t \in clock..(clock + HoursPerDay) :
          ~should_update_cache(
              set_cached_data(session_state, convert_types(AnySheet(RawSheets)), t, t), t)

C5_Witness ==
    /\ JustPut
    /\ last_put.timestamp_at = clock
    /\ LocalHourAt(clock) = UpdateHour

(* C6: after a put, no entry is two or more windows older than the current *)
(* window, and the cache holds at most two entries.                        *)
C6_AtMostTwoWindows ==
    JustPut =>
        /\ \A k \in DOMAIN CacheOf(session_state) :
              k >= get_cache_key(clock) - 1
        /\ Cardinality(DOMAIN CacheOf(session_state)) <= 2

C6_Witness ==
    /\ JustPut
    /\ last_put.evicted # {}
    /\ \E k \in last_put.evicted : k <= get_cache_key(clock) - 2

(* C7: a later get in the window of a put made at one instant t returns    *)
(* the put's table and t; a get with no entry under the current key        *)
(* returns (None, None).                                                   *)
C7_GetAfterPut ==
    /\ (/\ last_put # None
         /\ last_put.key_at = last_put.timestamp_at
         /\ ~BoundaryBetween(last_put.timestamp_at, clock))
        => /\ get_cache_key(clock) \in DOMAIN CacheOf(session_state)
           /\ get_cached_data(session_state, clock)
                = <<last_put.data, get_croatian_time(last_put.timestamp_at)>>
    /\ get_cache_key(clock) \notin DOMAIN CacheOf(session_state)
        => get_cached_data(session_state, clock) = <<None, None>>

C7_Witness ==
    /\ last_put # None
    /\ last_put.key_at = last_put.timestamp_at
    /\ last_put.timestamp_at < clock
    /\ ~BoundaryBetween(last_put.timestamp_at, clock)
    /\ JustLoaded
    /\ cycle.outcome = "cached"
    /\ df = last_put.data

(* C8 (as claimed): the key of the lookup, the key a fetched table is      *)
(* stored under and the window of the stored timestamp are one window, and *)
(* the freshness check looks at the window of the lookup.                  *)
C8_OneWindowPerCycle ==
    /\ \A k \in DOMAIN CacheOf(session_state) :
          WindowOf(CacheOf(session_state)[k].timestamp) = k
    /\ JustPut => get_cache_key(cycle.lookup_at) = get_cache_key(last_put.key_at)
    /\ (JustLoaded /\ cycle.checked_at >= 0)
         => get_cache_key(cycle.checked_at) = get_cache_key(cycle.lookup_at)

(* C9: a catalog refresh changes neither favorites nor custom_lists, so a  *)
(* key that is favorited or in a list before it still is after it, and    *)
(* only the add, remove, toggle, create and delete actions change them.    *)
C9_RefreshKeepsCuration ==
    [][ /\ cycle'.op = "load"
           => /\ session_state'.favorites = session_state.favorites
              /\ session_state'.custom_lists = session_state.custom_lists
              /\ \A i \in 1..Len(session_state.favorites) :
                    HasKey(session_state'.favorites, session_state.favorites[i].id)
        /\ (\/ session_state'.favorites # session_state.favorites
            \/ session_state'.custom_lists # session_state.custom_lists)
           => cycle'.op \in {"favorite", "add", "remove", "create", "delete"}
      ]_vars

C9_Witness ==
    /\ JustPut
    /\ last_put.evicted # {}
    /\ HasKey(session_state.favorites, 570)
    /\ \E name \in DOMAIN session_state.custom_lists :
          session_state.custom_lists[name] # <<>>
    /\ \E i \in 1..Len(df.rows) : get_game_id(df.rows[i]) = 570

(* C10: no list ever holds two entries with the same item key, and adding  *)
(* an item to a list that already holds its key leaves the list unchanged. *)
NoDuplicateKeys(ss) ==
    \A name \in DOMAIN ss.custom_lists :
        \A i, j \in 1..Len(ss.custom_lists[name]) :
            ss.custom_lists[name][i].id = ss.custom_lists[name][j].id => i = j

C10_UniqueKeysInLists ==
    [][ /\ NoDuplicateKeys(session_state')
        /\ (cycle'.op = "add" /\ cycle'.present)
           => session_state'.custom_lists = session_state.custom_lists
      ]_vars

C10_Witness ==
    /\ cycle.op = "add"
    /\ cycle.present
    /\ Len(session_state.custom_lists[cycle.list]) = 2

(* C11: creating a list under a name that exists is answered "already      *)
(* exists" and changes no list; creating one under a new name that is not  *)
(* blank adds that name with no entries and changes no other list.         *)
NonBlank(text) == \E i \in 1..Len(text) : text[i] # " "

C11_CreateList ==
    [][ cycle'.op = "create"
        => LET name == cycle'.list
               before == session_state.custom_lists
               after == session_state'.custom_lists
           IN /\ name \in DOMAIN before
                 => /\ cycle'.message = "List already exists!"
                    /\ after = before
              /\ (name \notin DOMAIN before /\ NonBlank(name))
                 => /\ DOMAIN after = DOMAIN before \cup {name}
                    /\ after[name] = <<>>
                    /\ \A other \in DOMAIN before : after[other] = before[other]
      ]_vars

C11_Witness ==
    /\ cycle.op = "create"
    /\ cycle.message = "List already exists!"
    /\ session_state.custom_lists[cycle.list] # <<>>

(* C12: a toggle of key k flips whether k is favorited: it appends one     *)
(* entry of key k, or removes every entry of key k, and leaves the entries *)
(* of other keys as they are; two toggles give back the same set of keys.  *)
KeysOf(entries) == {entries[i].id : i \in 1..Len(entries)}

C12_ToggleFlips ==
    [][ /\ cycle'.op = "favorite"
           => LET k == cycle'.game_id
                  before == session_state.favorites
                  after == session_state'.favorites
              IN /\ HasKey(after, k) <=> ~HasKey(before, k)
                 /\ ~HasKey(before, k)
                    => /\ Len(after) = Len(before) + 1
                       /\ SubSeq(after, 1, Len(before)) = before
                       /\ after[Len(after)].id = k
                 /\ HasKey(before, k)
                    => after = SelectSeq(before, LAMBDA fav : fav.id # k)
        /\ \A game \in Cards :
              KeysOf(create_favorite_button(
                        create_favorite_button(session_state, game), game).favorites)
                = KeysOf(session_state.favorites)
      ]_vars

C12_Witness ==
    /\ cycle.op = "favorite"
    /\ ~HasKey(session_state.favorites, cycle.game_id)
    /\ session_state.favorites # <<>>

(* C16 (as claimed): when the credentials are not valid JSON or lack a     *)
(* required field while the cache holds a table for the current key,       *)
(* load_steam_data returns that cached table, not an empty table.          *)
C16_CredentialFallback ==
    [][ (/\ cycle'.op = "load"
         /\ cycle'.outcome \in {"bad_json", "missing_fields"}
         /\ cycle'.cached_data # None)
        => /\ df' = cycle'.cached_data
           /\ df' # EmptyFrame
      ]_vars

(* C15 (as claimed): the key of a row is a function of the row alone: a    *)
(* row with a numeric AppID has the key int(AppID), and a row that a fetch *)
(* returns as the fetch before it did has the key it had then.             *)
C15_KeyIsStable ==
    [][ (/\ cycle'.op = "load"
         /\ cycle'.outcome = "ok"
         /\ last_put # None)
        => \A i \in 1..Len(last_put.data.rows), j \in 1..Len(df'.rows) :
              LET row == df'.rows[j]
              IN last_put.data.rows[i] = row
                 => /\ last_put'.ids[j] = last_put.ids[i]
                    /\ notna(row.AppID) => last_put'.ids[j] = row.AppID.val
      ]_vars

(* The filtered table of the last script run, and its stages *)
JustRendered == cycle.op = "render"
RowsOf(frame) == {frame.rows[i] : i \in 1..Len(frame.rows)}
AfterKeyword == cycle.stages[2]
AfterInclude == cycle.stages[3]
AfterExclude == cycle.stages[4]
AfterDemo == cycle.stages[5]
AfterStatus == cycle.stages[6]
AfterAdult == cycle.stages[7]
Filtered == cycle.stages[8]

(* C17: on the catalog and on the table the tag filters get, the include   *)
(* filter followed by the exclude filter keeps the same set of rows as the *)
(* exclude filter followed by the include filter.                          *)
C17_TagFiltersCommute ==
    JustRendered
    => \A frame \in {df, AfterKeyword} :
          /\ RowsOf(exclude_tags(include_tags(frame, widgets.selected_tags),
                                  widgets.excluded_tags))
               = RowsOf(include_tags(exclude_tags(frame, widgets.excluded_tags),
                                     widgets.selected_tags))
          /\ RowsOf(AfterExclude)
               = RowsOf(include_tags(exclude_tags(AfterKeyword,
                                                  widgets.excluded_tags),
                                     widgets.selected_tags))

C17_Witness ==
    /\ JustRendered
    /\ widgets.selected_tags # {}
    /\ widgets.excluded_tags # {}
    /\ RowsOf(AfterInclude) # RowsOf(AfterKeyword)
    /\ RowsOf(AfterExclude) # RowsOf(AfterInclude)
    /\ RowsOf(AfterExclude) # {}

(* C18: a row of the filtered table has every included tag and none of the *)
(* excluded tags; a row with an excluded tag is not in it even if it has   *)
(* all the included tags.                                                  *)
C18_ExcludeWins ==
    JustRendered
    => \A row \in RowsOf(Filtered) :
          /\ \A tag \in widgets.selected_tags : tag_present(row, tag)
          /\ \A tag \in widgets.excluded_tags : ~tag_present(row, tag)

C18_Witness ==
    /\ JustRendered
    /\ widgets.selected_tags # {}
    /\ widgets.excluded_tags # {}
    /\ RowsOf(Filtered) # {}
    /\ \E row \in RowsOf(df) \ RowsOf(Filtered) :
          /\ \A tag \in widgets.selected_tags : tag_present(row, tag)
          /\ \E tag \in widgets.excluded_tags : tag_present(row, tag)

(* C19: with show_adult_content false no row of the filtered table is      *)
(* adult content; with show_adult_content true the adult content filter    *)
(* gives back the table it got.                                            *)
C19_AdultHidden ==
    JustRendered
    => /\ ~widgets.show_adult_content
          => \A row \in RowsOf(Filtered) : ~is_adult_content(row)
       /\ widgets.show_adult_content => AfterAdult = AfterStatus

C19_Witness ==
    /\ JustRendered
    /\ ~widgets.show_adult_content
    /\ \E row \in RowsOf(AfterStatus) : is_adult_content(row)
    /\ RowsOf(Filtered) # {}

(* C20: a filter whose criterion is unset gives back the table it got      *)
(* (keywords of blanks and commas only, no include tags, no exclude tags,  *)
(* demo "All", release status "All", list "All"); with all of them unset   *)
(* and adult content shown the filtered table is the catalog.              *)
BlankKeywords(text) == \A i \in 1..Len(text) : text[i] \in {" ", ","}

C20_UnsetPasses ==
    JustRendered
    => /\ BlankKeywords(widgets.keyword_search) => AfterKeyword = df
       /\ widgets.selected_tags = {} => AfterInclude = AfterKeyword
       /\ widgets.excluded_tags = {} => AfterExclude = AfterInclude
       /\ widgets.demo_filter = "All" => AfterDemo = AfterExclude
       /\ widgets.release_status_filter = "All" => AfterStatus = AfterDemo
       /\ widgets.selected_list_filter = All => Filtered = AfterAdult
       /\ (/\ BlankKeywords(widgets.keyword_search)
           /\ widgets.selected_tags = {}
           /\ widgets.excluded_tags = {}
           /\ widgets.demo_filter = "All"
           /\ widgets.release_status_filter = "All"
           /\ widgets.selected_list_filter = All
           /\ widgets.show_adult_content)
          => Filtered = df

C20_Witness ==
    /\ JustRendered
    /\ widgets = [DefaultCriteria EXCEPT !.keyword_search = <<",", " ">>,
                                         !.show_adult_content = TRUE]
    /\ \E row \in RowsOf(df) : is_adult_content(row)
    /\ Filtered = df

(* C13 (as claimed): when an option of "Show List" other than the first    *)
(* "All" is picked, the filtered table holds exactly the rows whose key is *)
(* in favorites (the option "Favorites") or in the entries of the custom   *)
(* list picked, whatever name the list was created under.                  *)
C13_ListFilterExact ==
    (/\ JustRendered
     /\ "picked" \in DOMAIN cycle
     /\ cycle.picked # [custom |-> FALSE, value |-> All])
    => LET wanted == IF cycle.picked.custom
                     THEN ids_of(session_state.custom_lists[cycle.picked.value])
                     ELSE ids_of(session_state.favorites)
       IN RowsOf(Filtered)
            = {row \in RowsOf(AfterAdult) : get_game_id(row) \in wanted}

(* C14 (as claimed): favoriting a row with no AppID makes that row         *)
(* favorited and changes the favorite status of no other row on the page,  *)
(* be it a row of another Name or a row with a numeric AppID.              *)
C14_FallbackKeyAddressesOneRow ==
    [][ (/\ cycle'.op = "favorite"
         /\ ~notna(cycle'.game.AppID)
         /\ ~is_game_favorited(session_state, cycle'.game_id))
        => /\ is_game_favorited(session_state', get_game_id(cycle'.game))
           /\ \A other \in Cards :
                 (other.Name # cycle'.game.Name \/ notna(other.AppID))
                 => (is_game_favorited(session_state', get_game_id(other))
                       <=> is_game_favorited(session_state, get_game_id(other)))
      ]_vars

(* C25: a load cycle makes at most one fetch attempt; a cycle whose fetch  *)
(* fails gives the table found in the cache, or an empty table.            *)
FetchFailures == {"exception", "bad_json", "missing_fields", "no_worksheet"}

C25_AtMostOneFetch ==
    JustLoaded
    => /\ cycle.fetches <= 1
       /\ cycle.outcome \in FetchFailures
          => df \in {EmptyFrame} \cup ({cycle.cached_data} \ {None})

C25_Witness ==
    /\ JustLoaded
    /\ cycle.outcome = "exception"
    /\ cycle.fetches = 1
    /\ cycle.cached_data # None
    /\ df = cycle.cached_data

(* C26: a cycle that starts with an entry under the current window key and *)
(* does not cross local 20:00 finds should_update_cache false and gives    *)
(* that entry's table without a fetch; a put never replaces an entry, so a *)
(* window gets at most one stored fetch.                                   *)
C26_ValidEntryNoFetch ==
    [][ cycle'.op = "load"
        => LET key == get_cache_key(cycle'.lookup_at)
               cache == CacheOf(session_state)
           IN /\ (/\ key \in DOMAIN cache
                   /\ ~BoundaryBetween(cycle'.lookup_at, cycle'.checked_at))
                 => /\ ~should_update_cache(session_state, cycle'.checked_at)
                    /\ cycle'.outcome = "cached"
                    /\ cycle'.fetches = 0
                    /\ df' = cache[key].data
                    /\ session_state' = session_state
              /\ cycle'.outcome = "ok"
                 => get_cache_key(last_put'.key_at) \notin DOMAIN cache
      ]_vars

C26_Witness ==
    /\ JustLoaded
    /\ cycle.outcome = "cached"
    /\ LocalHourAt(cycle.lookup_at) >= UpdateHour
    /\ Cardinality(DOMAIN CacheOf(session_state)) = 2

(* C27: a cycle whose fetch fails or returns no row leaves data_cache and  *)
(* last_cache_update as they were; a fetch that returns rows stores its    *)
(* table under the key of the put and sets last_cache_update to its time.  *)
C27_FailedFetchKeepsCache ==
    [][ cycle'.op = "load"
        => /\ cycle'.outcome \in FetchFailures \cup {"empty"}
              => /\ CacheOf(session_state') = CacheOf(session_state)
                 /\ Stored(session_state') <=> Stored(session_state)
                 /\ Stored(session_state)
                    => session_state'.last_cache_update
                         = session_state.last_cache_update
           /\ cycle'.outcome = "ok"
              => /\ Len(df'.rows) >= 1
                 /\ CacheOf(session_state')[get_cache_key(last_put'.key_at)].data = df'
                 /\ session_state'.last_cache_update
                      = get_croatian_time(last_put'.timestamp_at)
                 /\ Stored(session_state)
                    => session_state'.last_cache_update
                         >= session_state.last_cache_update
      ]_vars

C27_Witness ==
    /\ JustLoaded
    /\ cycle.outcome = "empty"
    /\ CacheOf(session_state) # <<>>
    /\ df = EmptyFrame

(* C28: creating or deleting list L, adding to L and removing from L leave *)
(* favorites and every list other than L as they were; a favorite toggle   *)
(* leaves custom_lists as it was.  One key can be in favorites and in      *)
(* several lists at once (the witness).                                    *)
C28_CurationFrame ==
    [][ /\ cycle'.op \in {"create", "delete", "add", "remove"}
           => LET before == session_state.custom_lists
                  after == session_state'.custom_lists
              IN /\ session_state'.favorites = session_state.favorites
                 /\ DOMAIN after \ {cycle'.list} = DOMAIN before \ {cycle'.list}
                 /\ \A other \in DOMAIN before \ {cycle'.list} :
                       after[other] = before[other]
        /\ cycle'.op = "favorite"
           => session_state'.custom_lists = session_state.custom_lists
      ]_vars

C28_Witness ==
    /\ cycle.op = "remove"
    /\ \E k \in KeysOf(session_state.favorites) :
          \E other \in DOMAIN session_state.custom_lists \ {cycle.list} :
             /\ k = cycle.game_id
             /\ HasKey(session_state.custom_lists[other], k)
             /\ ~HasKey(session_state.custom_lists[cycle.list], k)

(* C24: games_shown starts at 20 and no step lowers it; the only change is *)
(* +20 by Load More, taken while games_shown is below the number of        *)
(* filtered results.                                                       *)
C24_PaginationGrows ==
    [][ /\ cycle.op = "start" => session_state.games_shown = PageSize
        /\ session_state'.games_shown >= session_state.games_shown
        /\ session_state'.games_shown # session_state.games_shown
           => /\ cycle'.op = "load_more"
              /\ session_state'.games_shown = session_state.games_shown + PageSize
              /\ session_state.games_shown
                   < Len(filtered_now(session_state, df, widgets).rows)
      ]_vars

C24_Witness ==
    /\ session_state.games_shown = 3 * PageSize
    /\ JustLoaded
    /\ df # None
    /\ Len(df.rows) < PageSize

(* The table the sort stage made in the last script run *)
JustSorted == cycle.op = "render" /\ "sorted" \in DOMAIN cycle
Sorted == cycle.sorted

(* C21: under "Date Added (Newest First)" the rows with a DateAdded come   *)
(* before the rows without, in descending DateAdded order, and rows of the *)
(* same DateAdded come in ascending Name order.                            *)
C21_NewestFirst ==
    (JustSorted /\ widgets.sort_option = "Date Added (Newest First)")
    => LET rows == Sorted.rows
       IN /\ Len(rows) = Len(Filtered.rows)
          /\ RowsOf(Sorted) = RowsOf(Filtered)
          /\ \A i, j \in 1..Len(rows) :
                i < j
                => /\ ~notna(rows[i].DateAdded) => ~notna(rows[j].DateAdded)
                   /\ (notna(rows[i].DateAdded) /\ notna(rows[j].DateAdded))
                      => rows[i].DateAdded.val >= rows[j].DateAdded.val
                   /\ rows[i].DateAdded = rows[j].DateAdded
                      => ~str_lt(rows[j].Name.val, rows[i].Name.val)

C21_Witness ==
    /\ JustSorted
    /\ widgets.sort_option = "Date Added (Newest First)"
    /\ Sorted # Filtered
    /\ \E i, j \in 1..Len(Sorted.rows) :
          /\ i < j
          /\ notna(Sorted.rows[i].DateAdded)
          /\ Sorted.rows[i].DateAdded = Sorted.rows[j].DateAdded
    /\ ~notna(Sorted.rows[Len(Sorted.rows)].DateAdded)

C23_UnknownOptionNoOp ==
    JustSorted
    => /\ widgets.sort_option \notin SortOptions => Sorted = Filtered
       /\ widgets.release_status_filter \notin StatusOptions
          => AfterStatus = AfterDemo

C23_Witness ==
    /\ JustSorted
    /\ widgets.sort_option \notin SortOptions
    /\ widgets.release_status_filter \notin StatusOptions
    /\ Len(Sorted.rows) = 4
    /\ Sorted = df

(* the last Sunday of a month, as an ordinal *)
LastSunday(year, month) ==
    LET last == days_in_month(year, month)
        day == CHOOSE d \in 1..last :
                   weekday(datetime(year, month, d)) = 6 /\ d + 7 > last
    IN toordinal(datetime(year, month, day))

(* C29 (as claimed): in every year get_croatian_time adds two hours from   *)
(* the last Sunday of March on and one hour from the last Sunday of        *)
(* October on, also when 31 March or 31 October is a Sunday.               *)
C29_LastSundayRule ==
    cycle.op = "time"
    => LET now == cycle.utc_now
       IN cycle.croatia_offset = CEST
          <=> /\ LastSunday(now.year, 3) <= toordinal(now)
              /\ toordinal(now) < LastSunday(now.year, 10)

====
